---- MODULE Spec2Model ----
(***************************************************************************)
(* path-protector: the mutating admission webhook of webhook.go and the    *)
(* Record accessor.                                                        *)
(*                                                                         *)
(* Text (Go strings) is a sequence of symbols.  The separators the code    *)
(* splits and trims on ("/", ",", " ") are symbols of their own; every     *)
(* other symbol is a run of characters holding none of them, so Split,     *)
(* Trim and TrimSpace act on the sequence as they act on the bytes.        *)
(*                                                                         *)
(* A decoded JSON value (interface{}) is a record [t, v]: t names the      *)
(* dynamic type, v holds the payload (text of a scalar, the key->value     *)
(* function of a map[string]interface{}, the elements of a []interface{}). *)
(***************************************************************************)
EXTENDS Integers, Sequences, FiniteSets, TLC

VARIABLES pc, req, newManifest, paths, currentMap, newMap, i, emitted, patches, resp

vars == <<pc, req, newManifest, paths, currentMap, newMap, i, emitted, patches, resp>>

----------------------------------------------------------------------------
(* Decoded JSON values *)

Str(s) == [t |-> "str", v |-> s]

Num(n) == [t |-> "num", v |-> <<n>>]

Null == [t |-> "null", v |-> <<>>]

Map(f) == [t |-> "map", v |-> f]

Arr(s) == [t |-> "seq", v |-> s]

EmptyMap == [k \in {} |-> Null]

----------------------------------------------------------------------------
(* Program constants *)

EnabledLabel == <<"path-protector.wish.com", "/", "enabled">>

PathsAnnotationKey == <<"path-protector.wish.com", "/", "paths">>

errIgnoredNamespace == [id |-> "errIgnoredNamespace", text |-> <<"Ignored namespace for mutation">>]

errNoLabel == [id |-> "errNoLabel", text |-> <<"Missing label: ">> \o EnabledLabel]

errLabelDisabled == [id |-> "errLabelDisabled", text |-> <<"Label disabled execution">>]

NoError == [id |-> "nil", text |-> <<>>]

ignoredNamespaces == << <<"kube-system">>, <<"kube-public">> >>

----------------------------------------------------------------------------
(* strings *)

RECURSIVE SplitAcc(_, _, _, _)
SplitAcc(s, sep, cur, acc) ==
  IF s = <<>> THEN Append(acc, cur)
  ELSE IF Head(s) = sep THEN SplitAcc(Tail(s), sep, <<>>, Append(acc, cur))
  ELSE SplitAcc(Tail(s), sep, Append(cur, Head(s)), acc)

\* strings.Split(s, sep) for a one-symbol separator: always at least one piece
Split(s, sep) == SplitAcc(s, sep, <<>>, <<>>)

RECURSIVE TrimLeft(_, _)
TrimLeft(s, cutset) ==
  IF s # <<>> /\ Head(s) \in cutset THEN TrimLeft(Tail(s), cutset) ELSE s

RECURSIVE TrimRight(_, _)
TrimRight(s, cutset) ==
  IF s # <<>> /\ s[Len(s)] \in cutset THEN TrimRight(SubSeq(s, 1, Len(s) - 1), cutset) ELSE s

\* strings.Trim(s, cutset)
Trim(s, cutset) == TrimRight(TrimLeft(s, cutset), cutset)

WhiteSpace == {" ", "\t", "\n", "\r"}

\* strings.TrimSpace(s)
TrimSpace(s) == Trim(s, WhiteSpace)

\* every spelling of "true" in upper and lower case letters
TrueVariants ==
  {
    <<"true">>, <<"truE">>, <<"trUe">>, <<"trUE">>, <<"tRue">>, <<"tRuE">>,
    <<"tRUe">>, <<"tRUE">>, <<"True">>, <<"TruE">>, <<"TrUe">>, <<"TrUE">>,
    <<"TRue">>, <<"TRuE">>, <<"TRUe">>, <<"TRUE">> }

\* every spelling of "false" in upper and lower case letters
FalseVariants ==
  {
    <<"false">>, <<"falsE">>, <<"falSe">>, <<"falSE">>, <<"faLse">>, <<"faLsE">>,
    <<"faLSe">>, <<"faLSE">>, <<"fAlse">>, <<"fAlsE">>, <<"fAlSe">>, <<"fAlSE">>,
    <<"fALse">>, <<"fALsE">>, <<"fALSe">>, <<"fALSE">>, <<"False">>, <<"FalsE">>,
    <<"FalSe">>, <<"FalSE">>, <<"FaLse">>, <<"FaLsE">>, <<"FaLSe">>, <<"FaLSE">>,
    <<"FAlse">>, <<"FAlsE">>, <<"FAlSe">>, <<"FAlSE">>, <<"FALse">>, <<"FALsE">>,
    <<"FALSe">>, <<"FALSE">> }

\* ParseBool folding the case of its argument
ParseBool_CaseInsensitive(str) ==
  IF str \in TrueVariants \cup {<<"1">>, <<"t">>, <<"T">>}
    THEN [b |-> TRUE, err |-> NoError]
  ELSE IF str \in FalseVariants \cup {<<"0">>, <<"f">>, <<"F">>}
    THEN [b |-> FALSE, err |-> NoError]
  ELSE [b |-> FALSE,
        err |-> [id |-> "NumError",
                 text |-> <<"strconv.ParseBool: parsing ", "\"">> \o str \o <<"\"", ": invalid syntax">>]]

\* strconv.ParseBool(str): the accepted spellings are an explicit list
ParseBool(str) ==
  IF str \in {<<"1">>, <<"t">>, <<"T">>, <<"TRUE">>, <<"true">>, <<"True">>}
    THEN [b |-> TRUE, err |-> NoError]
  ELSE IF str \in {<<"0">>, <<"f">>, <<"F">>, <<"FALSE">>, <<"false">>, <<"False">>}
    THEN [b |-> FALSE, err |-> NoError]
  ELSE [b |-> FALSE,
        err |-> [id |-> "NumError",
                 text |-> <<"strconv.ParseBool: parsing ", "\"">> \o str \o <<"\"", ": invalid syntax">>]]

----------------------------------------------------------------------------
(* Record *)

NotFound == [val |-> Null, ok |-> FALSE]

RECURSIVE GetLoop(_, _)
GetLoop(val, rest) ==
  IF rest = <<>> THEN [val |-> val, ok |-> TRUE]
  ELSE IF val.t # "map" THEN NotFound
  ELSE IF Head(rest) \notin DOMAIN val.v THEN NotFound
  ELSE GetLoop(val.v[Head(rest)], Tail(rest))

\* Get that stops after the first segment
Get_FirstOnly(r, nameParts) ==
  IF Len(nameParts) <= 0 THEN NotFound
  ELSE IF nameParts[1] \notin DOMAIN r THEN NotFound
  ELSE [val |-> r[nameParts[1]], ok |-> TRUE]

\* Record.Get: r is the key->value function of the record (a nil Record
\* reads as the empty function)
Get(r, nameParts) ==
  IF Len(nameParts) <= 0 THEN NotFound
  ELSE IF nameParts[1] \notin DOMAIN r THEN NotFound
  ELSE GetLoop(r[nameParts[1]], Tail(nameParts))

----------------------------------------------------------------------------
(* patchForPath *)

DeepEqual(a, b) == a = b

\* patchForPath without the DeepEqual test
patchForPath_NoDeepEqual(path, current, replacement) ==
  LET pathParts == Split(Trim(path, {"/"}), "/")
      cur == Get(current, pathParts)
      new == Get(replacement, pathParts)
  IN  IF ~cur.ok THEN <<>>
      ELSE IF new.ok
        THEN << [Op |-> "replace", Path |-> path, Value |-> cur.val] >>
        ELSE << [Op |-> "add", Path |-> path, Value |-> cur.val] >>

patchForPath(path, current, replacement) ==
  LET pathParts == Split(Trim(path, {"/"}), "/")
      cur == Get(current, pathParts)
      new == Get(replacement, pathParts)
  IN  IF ~cur.ok THEN <<>>
      ELSE IF new.ok
        THEN IF DeepEqual(cur.val, new.val) THEN <<>>
             ELSE << [Op |-> "replace", Path |-> path, Value |-> cur.val] >>
        ELSE << [Op |-> "add", Path |-> path, Value |-> cur.val] >>

----------------------------------------------------------------------------
(* encoding/json as mutate uses it.  A payload (RawExtension.Raw) is nil,   *)
(* the empty byte string, bytes that are not JSON, or the bytes of a JSON   *)
(* value.                                                                   *)

GoKind(val) ==
  CASE val.t = "str" -> "string"
    [] val.t = "num" -> "number"
    [] val.t = "seq" -> "array"
    [] val.t = "map" -> "object"
    [] OTHER -> "null"

SyntaxError(raw) ==
  [id |-> "SyntaxError",
   text |-> IF raw.kind \in {"nil", "empty"} THEN <<"unexpected end of JSON input">>
            ELSE <<"invalid character 'x' looking for beginning of object key string">>]

TypeError(val, goType) ==
  [id |-> "UnmarshalTypeError",
   text |-> <<"json: cannot unmarshal ", GoKind(val), " into Go value of type ", goType>>]

\* the member of object m under key k; an absent member and a null member
\* both leave the Go field at its zero value
Member(m, k) == IF k \in DOMAIN m THEN m[k] ELSE Null

\* decoding into a string field
UnmarshalString(val) ==
  IF val.t = "str" THEN [s |-> val.v, err |-> NoError]
  ELSE IF val.t = "null" THEN [s |-> <<>>, err |-> NoError]
  ELSE [s |-> <<>>, err |-> TypeError(val, "string")]

\* decoding into a map[string]string field (Labels, Annotations)
UnmarshalStringMap(val) ==
  IF val.t = "null" THEN [m |-> EmptyMap, err |-> NoError]
  ELSE IF val.t # "map" THEN [m |-> EmptyMap, err |-> TypeError(val, "map[string]string")]
  ELSE LET bad == {k \in DOMAIN val.v : val.v[k].t \notin {"str", "null"}}
       IN  [m |-> [k \in DOMAIN val.v |-> UnmarshalString(val.v[k]).s],
            err |-> IF bad = {} THEN NoError
                    ELSE TypeError(val.v[CHOOSE k \in bad : TRUE], "string")]

ZeroObjectMeta == [Namespace |-> <<>>, Labels |-> EmptyMap, Annotations |-> EmptyMap]

FirstError(errs) ==
  LET bad == {n \in 1..Len(errs) : errs[n] # NoError}
  IN  IF bad = {} THEN NoError ELSE errs[CHOOSE n \in bad : \A k \in bad : n <= k]

\* decoding into the embedded metav1.ObjectMeta of objectWithMeta
UnmarshalObjectMeta(val) ==
  IF val.t = "null" THEN [meta |-> ZeroObjectMeta, err |-> NoError]
  ELSE IF val.t # "map" THEN [meta |-> ZeroObjectMeta, err |-> TypeError(val, "v1.ObjectMeta")]
  ELSE LET ns == UnmarshalString(Member(val.v, <<"namespace">>))
           ls == UnmarshalStringMap(Member(val.v, <<"labels">>))
           as == UnmarshalStringMap(Member(val.v, <<"annotations">>))
       IN  [meta |-> [Namespace |-> ns.s, Labels |-> ls.m, Annotations |-> as.m],
            err |-> FirstError(<<ns.err, ls.err, as.err>>)]

\* json.Unmarshal(raw, &newManifest), newManifest an objectWithMeta
UnmarshalManifest(raw) ==
  IF raw.kind # "json" THEN [meta |-> ZeroObjectMeta, err |-> SyntaxError(raw)]
  ELSE IF raw.doc.t = "null" THEN [meta |-> ZeroObjectMeta, err |-> NoError]
  ELSE IF raw.doc.t # "map"
    THEN [meta |-> ZeroObjectMeta, err |-> TypeError(raw.doc, "main.objectWithMeta")]
  ELSE UnmarshalObjectMeta(Member(raw.doc.v, <<"metadata">>))

\* json.Unmarshal(raw, &m), m a nil map[string]interface{}: JSON null leaves
\* it nil
UnmarshalMap(raw) ==
  IF raw.kind # "json" THEN [m |-> EmptyMap, err |-> SyntaxError(raw)]
  ELSE IF raw.doc.t = "null" THEN [m |-> EmptyMap, err |-> NoError]
  ELSE IF raw.doc.t # "map"
    THEN [m |-> EmptyMap, err |-> TypeError(raw.doc, "map[string]interface {}")]
  ELSE [m |-> raw.doc.v, err |-> NoError]

----------------------------------------------------------------------------
(* mutationRequired *)

InList(list, x) == \E n \in 1..Len(list) : list[n] = x

\* the split of the paths annotation, each piece trimmed of spaces
SplitPaths(metadata) ==
  LET splitPaths == Split(metadata.Annotations[PathsAnnotationKey], ",")
  IN  [n \in 1..Len(splitPaths) |-> TrimSpace(splitPaths[n])]

\* mutationRequired reading the label before the namespace
mutationRequired_LabelFirst(ignoredList, metadata) ==
  IF EnabledLabel \notin DOMAIN metadata.Labels
    THEN [paths |-> <<>>, err |-> errNoLabel]
  ELSE LET pb == ParseBool(metadata.Labels[EnabledLabel])
       IN  IF pb.err # NoError THEN [paths |-> <<>>, err |-> pb.err]
           ELSE IF ~pb.b THEN [paths |-> <<>>, err |-> errLabelDisabled]
           ELSE IF InList(ignoredList, metadata.Namespace)
             THEN [paths |-> <<>>, err |-> errIgnoredNamespace]
           ELSE IF PathsAnnotationKey \notin DOMAIN metadata.Annotations
             THEN [paths |-> <<>>, err |-> NoError]
           ELSE [paths |-> SplitPaths(metadata), err |-> NoError]

\* mutationRequired taking any label that parses as enabling
mutationRequired_IgnoresFalse(ignoredList, metadata) ==
  IF InList(ignoredList, metadata.Namespace)
    THEN [paths |-> <<>>, err |-> errIgnoredNamespace]
  ELSE IF EnabledLabel \notin DOMAIN metadata.Labels
    THEN [paths |-> <<>>, err |-> errNoLabel]
  ELSE LET pb == ParseBool(metadata.Labels[EnabledLabel])
       IN  IF pb.err # NoError THEN [paths |-> <<>>, err |-> pb.err]
           ELSE IF PathsAnnotationKey \notin DOMAIN metadata.Annotations
             THEN [paths |-> <<>>, err |-> NoError]
           ELSE [paths |-> SplitPaths(metadata), err |-> NoError]

mutationRequired(ignoredList, metadata) ==
  IF InList(ignoredList, metadata.Namespace)
    THEN [paths |-> <<>>, err |-> errIgnoredNamespace]
  ELSE IF EnabledLabel \notin DOMAIN metadata.Labels
    THEN [paths |-> <<>>, err |-> errNoLabel]
  ELSE LET pb == ParseBool(metadata.Labels[EnabledLabel])
       IN  IF pb.err # NoError THEN [paths |-> <<>>, err |-> pb.err]
           ELSE IF ~pb.b THEN [paths |-> <<>>, err |-> errLabelDisabled]
           ELSE IF PathsAnnotationKey \notin DOMAIN metadata.Annotations
             THEN [paths |-> <<>>, err |-> NoError]
           ELSE [paths |-> SplitPaths(metadata), err |-> NoError]

----------------------------------------------------------------------------
(* Admission requests: the new object's manifest is built from its          *)
(* namespace, labels, annotations and spec; the old object likewise.        *)

None == [has |-> FALSE, v |-> Null]

Some(val) == [has |-> TRUE, v |-> val]

\* the object member k: val when the option holds a value, no member otherwise
Opt(k, o) == IF o.has THEN k :> o.v ELSE EmptyMap

OptMap(k, m) == IF DOMAIN m = {} THEN EmptyMap ELSE k :> Map(m)

HPAKey == <<"autoscaling.alpha.kubernetes.io", "/", "current-metrics">>

Manifest(ns, enabled, testlabel, pathsAnn, hpa, spec) ==
  LET labels == Opt(EnabledLabel, enabled) @@ Opt(<<"testlabel">>, testlabel)
      annotations == Opt(PathsAnnotationKey, pathsAnn) @@ Opt(HPAKey, hpa)
      metadata == Opt(<<"namespace">>, ns) @@ OptMap(<<"labels">>, labels)
                    @@ OptMap(<<"annotations">>, annotations)
  IN  Map(OptMap(<<"metadata">>, metadata) @@ Opt(<<"spec">>, spec))

Replicas(n) == Map(<<"replicas">> :> n)

SpecValues ==
  { None, Some(Map(EmptyMap)), Some(Replicas(Num("1"))), Some(Replicas(Num("10"))),
    Some(Replicas(Null)), Some(Null), Some(Arr(<<Num("1")>>)) }

\* (testlabel, current-metrics annotation) of an object
MetaValues ==
  { <<None, None>>, <<Some(Str(<<"new">>)), None>>, <<Some(Str(<<"existing">>)), None>>,
    <<None, Some(Str(<<"m1">>))>>, <<None, Some(Str(<<"m2">>))>> }

Namespaces == { None, Some(Str(<<"kube-system">>)), Some(Str(<<"kube-public">>)),
                Some(Str(<<"testns">>)) }

EnabledValues ==
  { None, Some(Str(<<"true">>)), Some(Str(<<"false">>)), Some(Str(<<"NOTABOOL">>)),
    Some(Str(<<"1">>)), Some(Str(<<"0">>)) }

SpecReplicas == <<"/", "spec", "/", "replicas">>

TestLabel == <<"/", "metadata", "/", "labels", "/", "testlabel">>

CurrentMetrics == <<"/", "metadata", "/", "annotations", "/">> \o HPAKey

\* values of the paths annotation
PathsValues ==
  { SpecReplicas,
    SpecReplicas \o <<",", " ">> \o TestLabel,
    TestLabel \o <<" ", ",">> \o SpecReplicas,
    SpecReplicas \o <<",">> \o SpecReplicas,
    <<"/", "spec", ",", " ">> \o SpecReplicas,
    CurrentMetrics,
    SpecReplicas \o <<",">>,
    <<"/">>,
    <<>> }

Json(doc) == [kind |-> "json", doc |-> doc]

NilRaw == [kind |-> "nil", doc |-> Null]

EmptyRaw == [kind |-> "empty", doc |-> Null]

BadRaw == [kind |-> "syntax", doc |-> Null]

\* payloads no manifest decodes from
BrokenNew ==
  { EmptyRaw, BadRaw, Json(Num("5")), Json(Null),
    Json(Map(<<"metadata">> :> Str(<<"x">>))),
    Json(Map(<<"metadata">> :> Map(<<"namespace">> :> Str(<<"kube-system">>)
                                   @@ <<"labels">> :> Map(EnabledLabel :> Num("1"))))) }

\* new objects that vary what mutationRequired reads
EligibilityObjects ==
  { Json(Manifest(ns, en, None, pa, None, Some(Replicas(Num("1"))))) :
      ns \in Namespaces, en \in EnabledValues,
      pa \in {None, Some(Str(SpecReplicas)), Some(Str(<<>>))} }

\* new objects that pass mutationRequired and vary what patchForPath reads
ProtectedObjects ==
  { Json(Manifest(Some(Str(<<"testns">>)), Some(Str(<<"true">>)), mv[1], Some(Str(pa)), mv[2], sp)) :
      mv \in MetaValues, pa \in PathsValues, sp \in SpecValues }

\* the object doc with a member under the empty-string key
WithEmptyKey(doc, val) == Map((<<>> :> val) @@ doc.v)

\* new objects with a degenerate path declared and a member named ""
EmptyKeyObjects ==
  { Json(WithEmptyKey(Manifest(Some(Str(<<"testns">>)), Some(Str(<<"true">>)), None,
                               Some(Str(pa)), None, Some(Replicas(Num("1")))), val)) :
      pa \in {SpecReplicas \o <<",">>, <<"/">>, <<>>}, val \in {Num("7"), Num("8")} }

\* values of the enabling label: the spellings of the booleans and other text
LabelSpellings ==
  TrueVariants \cup FalseVariants \cup
  { <<"1">>, <<"0">>, <<"t">>, <<"T">>, <<"f">>, <<"F">>, <<"yes">>, <<"NOTABOOL">>, <<>> }

\* new objects that vary the spelling of the enabling label
LabelObjects ==
  { Json(Manifest(Some(Str(<<"testns">>)), Some(Str(en)), None, pa, None,
                  Some(Replicas(Num("1"))))) :
      en \in LabelSpellings, pa \in {None, Some(Str(SpecReplicas))} }

NewObjects ==
  BrokenNew \cup EligibilityObjects \cup ProtectedObjects \cup EmptyKeyObjects \cup LabelObjects

OldObjects ==
  { NilRaw, EmptyRaw, BadRaw, Json(Null), Json(Num("5")) } \cup
  { Json(Manifest(Some(Str(<<"testns">>)), None, mv[1], None, mv[2], sp)) :
      mv \in MetaValues, sp \in SpecValues } \cup
  { Json(WithEmptyKey(Manifest(Some(Str(<<"testns">>)), None, None, None, None, sp), Num("7"))) :
      sp \in {None, Some(Replicas(Num("10")))} }

\* v1beta1.AdmissionRequest: Object.Raw and OldObject.Raw
Requests == [Object : NewObjects, OldObject : OldObjects]

----------------------------------------------------------------------------
(* v1beta1.AdmissionResponse *)

NoPatch == [set |-> FALSE, ops |-> <<>>, type |-> ""]

NoResult == [set |-> FALSE, Message |-> <<>>]

\* &v1beta1.AdmissionResponse{Allowed: true}
AllowedResponse == [Allowed |-> TRUE, Result |-> NoResult, Patch |-> NoPatch]

\* the error response with the decision field set
ErrorResponse_Allowed(err) ==
  [Allowed |-> TRUE, Result |-> [set |-> TRUE, Message |-> err.text], Patch |-> NoPatch]

\* &v1beta1.AdmissionResponse{Result: &metav1.Status{Message: err.Error()}}
ErrorResponse(err) ==
  [Allowed |-> FALSE, Result |-> [set |-> TRUE, Message |-> err.text], Patch |-> NoPatch]

\* json.Marshal of one patchOperation: Value carries omitempty, so a nil
\* interface (JSON null) leaves the "value" member out
MarshalOp(p) ==
  Map(<<"op">> :> Str(<<p.Op>>) @@ <<"path">> :> Str(p.Path)
        @@ (IF p.Value = Null THEN EmptyMap ELSE <<"value">> :> p.Value))

\* json.Marshal(patches)
Marshal(ps) == [n \in 1..Len(ps) |-> MarshalOp(ps[n])]

PatchResponse(ps) ==
  [Allowed |-> TRUE, Result |-> NoResult,
   Patch |-> [set |-> TRUE, ops |-> Marshal(ps), type |-> "JSONPatch"]]

NoResponse == [Allowed |-> FALSE, Result |-> NoResult, Patch |-> NoPatch]

----------------------------------------------------------------------------
(* serve and the steps of mutate *)

NoRequest == [Object |-> NilRaw, OldObject |-> NilRaw]

Init ==
  /\ pc = "idle"
  /\ req = NoRequest
  /\ newManifest = ZeroObjectMeta
  /\ paths = <<>>
  /\ currentMap = EmptyMap
  /\ newMap = EmptyMap
  /\ i = 1
  /\ emitted = <<>>
  /\ patches = <<>>
  /\ resp = NoResponse

\* serve hands the request of a decoded AdmissionReview to mutate
Serve ==
  /\ pc = "idle"
  /\ \E r \in Requests : req' = r
  /\ pc' = "mutate"
  /\ UNCHANGED <<newManifest, paths, currentMap, newMap, i, emitted, patches, resp>>

\* serve writes the response; nothing of the request outlives it
Reply ==
  /\ pc = "done"
  /\ pc' = "idle"
  /\ req' = NoRequest
  /\ newManifest' = ZeroObjectMeta
  /\ paths' = <<>>
  /\ currentMap' = EmptyMap
  /\ newMap' = EmptyMap
  /\ i' = 1
  /\ emitted' = <<>>
  /\ patches' = <<>>
  /\ resp' = NoResponse

Return(r) ==
  /\ resp' = r
  /\ pc' = "done"

\* mutate: decode the new object's metadata
Unmarshal ==
  /\ pc = "mutate"
  /\ LET u == UnmarshalManifest(req.Object)
     IN  IF u.err # NoError
           THEN Return(ErrorResponse(u.err)) /\ UNCHANGED newManifest
           ELSE newManifest' = u.meta /\ pc' = "required" /\ UNCHANGED resp
  /\ UNCHANGED <<req, paths, currentMap, newMap, i, emitted, patches>>

\* Required with every error of mutationRequired taken as a skip
Required_ErrorsSkip ==
  /\ pc = "required"
  /\ LET r == mutationRequired(ignoredNamespaces, newManifest)
     IN  IF r.err # NoError \/ Len(r.paths) = 0
           THEN Return(AllowedResponse) /\ UNCHANGED paths
         ELSE paths' = r.paths /\ pc' = "decode" /\ UNCHANGED resp
  /\ UNCHANGED <<req, newManifest, currentMap, newMap, i, emitted, patches>>

\* mutate: mutationRequired and the switch on its error
Required ==
  /\ pc = "required"
  /\ LET r == mutationRequired(ignoredNamespaces, newManifest)
     IN  IF r.err # NoError
           THEN /\ IF r.err.id \in {"errIgnoredNamespace", "errNoLabel", "errLabelDisabled"}
                     THEN Return(AllowedResponse)
                     ELSE Return(ErrorResponse(r.err))
                /\ UNCHANGED paths
         ELSE IF Len(r.paths) = 0
           THEN Return(AllowedResponse) /\ UNCHANGED paths
         ELSE paths' = r.paths /\ pc' = "decode" /\ UNCHANGED resp
  /\ UNCHANGED <<req, newManifest, currentMap, newMap, i, emitted, patches>>

\* Decode without the test for a nil old payload
Decode_NoNilCheck ==
  /\ pc = "decode"
  /\ LET old == UnmarshalMap(req.OldObject)
         new == UnmarshalMap(req.Object)
     IN  IF old.err # NoError
           THEN Return(ErrorResponse(old.err)) /\ UNCHANGED <<currentMap, newMap>>
         ELSE IF new.err # NoError
           THEN Return(ErrorResponse(new.err)) /\ UNCHANGED <<currentMap, newMap>>
         ELSE currentMap' = old.m /\ newMap' = new.m /\ pc' = "patch" /\ UNCHANGED resp
  /\ UNCHANGED <<req, newManifest, paths, i, emitted, patches>>

\* mutate: decode the old object (when the request has one) and the new one
Decode ==
  /\ pc = "decode"
  /\ LET old == IF req.OldObject.kind # "nil" THEN UnmarshalMap(req.OldObject)
                ELSE [m |-> EmptyMap, err |-> NoError]
         new == UnmarshalMap(req.Object)
     IN  IF old.err # NoError
           THEN Return(ErrorResponse(old.err)) /\ UNCHANGED <<currentMap, newMap>>
         ELSE IF new.err # NoError
           THEN Return(ErrorResponse(new.err)) /\ UNCHANGED <<currentMap, newMap>>
         ELSE currentMap' = old.m /\ newMap' = new.m /\ pc' = "patch" /\ UNCHANGED resp
  /\ UNCHANGED <<req, newManifest, paths, i, emitted, patches>>

\* the loop putting each new operation in front of the earlier ones
PatchLoop_Prepend ==
  /\ pc = "patch"
  /\ i <= Len(paths)
  /\ emitted' = patchForPath(paths[i], currentMap, newMap)
  /\ patches' = emitted' \o patches
  /\ i' = i + 1
  /\ UNCHANGED <<pc, req, newManifest, paths, currentMap, newMap, resp>>

\* mutate: one turn of the loop over paths
PatchLoop ==
  /\ pc = "patch"
  /\ i <= Len(paths)
  /\ emitted' = patchForPath(paths[i], currentMap, newMap)
  /\ patches' = patches \o emitted'
  /\ i' = i + 1
  /\ UNCHANGED <<pc, req, newManifest, paths, currentMap, newMap, resp>>

\* mutate: the response after the loop
Respond ==
  /\ pc = "patch"
  /\ i > Len(paths)
  /\ IF Len(patches) = 0 THEN Return(AllowedResponse) ELSE Return(PatchResponse(patches))
  /\ UNCHANGED <<req, newManifest, paths, currentMap, newMap, i, emitted, patches>>

Next == Serve \/ Unmarshal \/ Required \/ Decode \/ PatchLoop \/ Respond \/ Reply

Spec == Init /\ [][Next]_vars

----------------------------------------------------------------------------
(* What the claims speak of *)

\* the segments a protected path addresses
Segments(path) == Split(Trim(path, {"/"}), "/")

Missing == [t |-> "missing", v |-> <<>>]

\* the value k segments down from the root of record r, Missing when the
\* walk leaves the mappings or misses a key
RECURSIVE Node(_, _, _)
Node(r, segs, k) ==
  IF k = 0 THEN Map(r)
  ELSE LET parent == Node(r, segs, k - 1)
       IN  IF parent.t = "map" /\ segs[k] \in DOMAIN parent.v THEN parent.v[segs[k]]
           ELSE Missing

\* segs is non-empty and every segment is a key of the mapping the
\* preceding segments reach
Resolves(r, segs) ==
  /\ Len(segs) > 0
  /\ \A k \in 1..Len(segs) :
       LET parent == Node(r, segs, k - 1)
       IN  parent.t = "map" /\ segs[k] \in DOMAIN parent.v

ValueAt(r, segs) == Node(r, segs, Len(segs))

Decoded == UnmarshalManifest(req.Object).err = NoError

Ignored == newManifest.Namespace \in {<<"kube-system">>, <<"kube-public">>}

HasLabel == EnabledLabel \in DOMAIN newManifest.Labels

LabelValue == newManifest.Labels[EnabledLabel]

TrueForms == {<<"1">>, <<"t">>, <<"T">>, <<"TRUE">>, <<"true">>, <<"True">>}

FalseForms == {<<"0">>, <<"f">>, <<"F">>, <<"FALSE">>, <<"false">>, <<"False">>}

HasPaths == PathsAnnotationKey \in DOMAIN newManifest.Annotations

Eligible == Decoded /\ ~Ignored /\ HasLabel /\ LabelValue \in TrueForms

\* the response is Rejected with this message and no patch
Rejected(text) ==
  /\ resp.Allowed = FALSE
  /\ resp.Result.set /\ resp.Result.Message = text
  /\ ~resp.Patch.set /\ resp.Patch.ops = <<>>

\* the response is Allowed with an empty patch list and no message
AllowedEmpty ==
  /\ resp.Allowed = TRUE
  /\ ~resp.Result.set /\ resp.Result.Message = <<>>
  /\ ~resp.Patch.set /\ resp.Patch.ops = <<>>

----------------------------------------------------------------------------
\* C1: for the path the loop has just handled, patchForPath emitted nothing
\* when old has no value there, one "add" of old's value when new has none,
\* nothing when both hold deep-equal values, one "replace" of old's value when
\* the values differ; every emitted operation is an add or a replace of old's
\* value.
C1_PatchForPath ==
  (pc \in {"patch", "done"} /\ i > 1) =>
    LET p == paths[i - 1]
        segs == Segments(p)
        hasOld == Resolves(currentMap, segs)
        hasNew == Resolves(newMap, segs)
        oldV == ValueAt(currentMap, segs)
        newV == ValueAt(newMap, segs)
    IN  /\ ~hasOld => emitted = <<>>
        /\ (hasOld /\ ~hasNew) => emitted = << [Op |-> "add", Path |-> p, Value |-> oldV] >>
        /\ (hasOld /\ hasNew /\ oldV = newV) => emitted = <<>>
        /\ (hasOld /\ hasNew /\ oldV # newV) =>
              emitted = << [Op |-> "replace", Path |-> p, Value |-> oldV] >>
        /\ \A n \in 1..Len(emitted) :
              emitted[n].Op \in {"add", "replace"} /\ emitted[n].Value = oldV

\* an add followed by a replace, each restoring the old value
C1_Witness ==
  /\ pc = "patch" /\ i = 3
  /\ Len(patches) = 2
  /\ patches[1].Op = "add" /\ patches[1].Value = Num("10")
  /\ patches[2].Op = "replace" /\ patches[2].Value = Str(<<"existing">>)

----------------------------------------------------------------------------
(* JSON Patch, as the API server applies a PatchTypeJSONPatch response *)

\* the reference tokens of a JSON Pointer: the empty pointer is the whole
\* document, any other pointer starts with "/"
Pointer(path) ==
  IF path = <<>> THEN [ok |-> TRUE, tokens |-> <<>>]
  ELSE IF Head(path) = "/" THEN [ok |-> TRUE, tokens |-> Split(Tail(path), "/")]
  ELSE [ok |-> FALSE, tokens |-> <<>>]

PatchFailed == [ok |-> FALSE, doc |-> Null]

\* doc with the member the tokens address set to x: every token but the last
\* must resolve through objects; the last must be an existing member for a
\* replace
RECURSIVE SetAt(_, _, _, _)
SetAt(doc, tokens, x, mustExist) ==
  IF tokens = <<>> THEN [ok |-> TRUE, doc |-> x]
  ELSE IF doc.t # "map" THEN PatchFailed
  ELSE LET k == Head(tokens)
       IN  IF Len(tokens) = 1
             THEN IF mustExist /\ k \notin DOMAIN doc.v THEN PatchFailed
                  ELSE [ok |-> TRUE, doc |-> Map((k :> x) @@ doc.v)]
           ELSE IF k \notin DOMAIN doc.v THEN PatchFailed
           ELSE LET sub == SetAt(doc.v[k], Tail(tokens), x, mustExist)
                IN  IF sub.ok THEN [ok |-> TRUE, doc |-> Map((k :> sub.doc) @@ doc.v)]
                    ELSE PatchFailed

\* one marshalled operation applied to doc; an operation without a "value"
\* member is read as carrying null
ApplyOp(doc, op) ==
  LET ptr == Pointer(op.v[<<"path">>].v)
      x == Member(op.v, <<"value">>)
  IN  IF ~ptr.ok THEN PatchFailed
      ELSE SetAt(doc, ptr.tokens, x, op.v[<<"op">>].v = <<"replace">>)

RECURSIVE ApplyPatch(_, _)
ApplyPatch(doc, ops) ==
  IF ops = <<>> THEN [ok |-> TRUE, doc |-> doc]
  ELSE LET first == ApplyOp(doc, Head(ops))
       IN  IF first.ok THEN ApplyPatch(first.doc, Tail(ops)) ELSE PatchFailed

----------------------------------------------------------------------------
\* C2: for every eligible update that reaches patch generation, the patch of
\* the response applies to the new document, and in the patched document
\* every protected path with a value in the old document holds that value.
C2_Restores ==
  (pc = "done" /\ resp.Allowed /\ Eligible /\ paths # <<>> /\ req.OldObject.kind = "json") =>
    LET patched == ApplyPatch(Map(newMap), resp.Patch.ops)
    IN  /\ patched.ok
        /\ \A n \in 1..Len(paths) :
             Resolves(currentMap, Segments(paths[n])) =>
               /\ patched.doc.t = "map"
               /\ Resolves(patched.doc.v, Segments(paths[n]))
               /\ ValueAt(patched.doc.v, Segments(paths[n]))
                    = ValueAt(currentMap, Segments(paths[n]))

----------------------------------------------------------------------------
\* the operation paths of ops are paths[f[1]], paths[f[2]], ... for indices
\* f[1] < f[2] < ... among the first k declared paths
Subsequence(opPaths, k) ==
  \E f \in [1..Len(opPaths) -> 1..k] :
    /\ \A n \in 1..Len(opPaths) : opPaths[n] = paths[f[n]]
    /\ \A m, n \in 1..Len(opPaths) : m < n => f[m] < f[n]

\* C3: the patch list holds at most one operation per declared path, in the
\* order of declaration: through the loop the accumulated operations, and at
\* the end the operations of the response, are a subsequence of the paths
\* handled so far, and each turn of the loop adds at most one.
C3_PathOrder ==
  /\ pc \in {"patch", "done"} =>
       /\ Len(emitted) <= 1
       /\ Len(patches) <= i - 1
       /\ Subsequence([n \in 1..Len(patches) |-> patches[n].Path], i - 1)
  /\ (pc = "done" /\ resp.Patch.set) =>
       /\ Len(resp.Patch.ops) = Len(patches)
       /\ Subsequence([n \in 1..Len(resp.Patch.ops) |-> resp.Patch.ops[n].v[<<"path">>].v],
                      Len(paths))

\* the two paths of the annotation "/metadata/labels/testlabel ,/spec/replicas"
\* both patched, in the order declared
C3_Witness ==
  /\ pc = "done" /\ resp.Patch.set
  /\ paths = <<TestLabel, SpecReplicas>>
  /\ Len(resp.Patch.ops) = 2
  /\ resp.Patch.ops[1].v[<<"path">>].v = TestLabel
  /\ resp.Patch.ops[2].v[<<"path">>].v = SpecReplicas

----------------------------------------------------------------------------
\* C4: a new object in an ignored namespace is answered Allowed with an empty
\* patch list and no message, whatever its labels, annotations and documents.
C4_IgnoredNamespace ==
  (pc = "done" /\ Decoded /\ Ignored) => AllowedEmpty

\* in kube-system with an enabling label that is no boolean
C4_Witness ==
  /\ pc = "done" /\ Decoded
  /\ newManifest.Namespace = <<"kube-system">>
  /\ HasLabel /\ LabelValue = <<"NOTABOOL">>
  /\ HasPaths
  /\ AllowedEmpty

\* C5: outside the ignored namespaces, a new object whose enabling label is
\* absent, or parses to false, or parses to true with no paths annotation, is
\* answered Allowed with an empty patch list and no message.
C5_NotEnabled ==
  (pc = "done" /\ Decoded /\ ~Ignored
     /\ \/ ~HasLabel
        \/ HasLabel /\ LabelValue \in FalseForms
        \/ HasLabel /\ LabelValue \in TrueForms /\ ~HasPaths) => AllowedEmpty

\* label "false" with a paths annotation present
C5_Witness ==
  /\ pc = "done" /\ Decoded /\ ~Ignored
  /\ HasLabel /\ LabelValue = <<"false">>
  /\ HasPaths
  /\ AllowedEmpty

----------------------------------------------------------------------------
(* Hard failures, read off the request *)

\* the payload is empty, is no JSON, or is JSON of the wrong shape for the
\* Go value it is decoded into
BrokenManifest == UnmarshalManifest(req.Object).err # NoError

MalformedLabel ==
  Decoded /\ ~Ignored /\ HasLabel /\ LabelValue \notin (TrueForms \cup FalseForms)

\* the old payload is present and is no JSON object (nor null), and the
\* request got as far as decoding it
BrokenOld ==
  /\ Eligible /\ HasPaths
  /\ req.OldObject.kind # "nil"
  /\ \/ req.OldObject.kind \in {"empty", "syntax"}
     \/ req.OldObject.kind = "json" /\ req.OldObject.doc.t \notin {"map", "null"}

HardFailure == BrokenManifest \/ MalformedLabel \/ BrokenOld

\* C6: every hard failure is answered Rejected (Allowed=false), with the
\* error's text as the message and no patch: (a) a new object that does not
\* decode, (b) an enabling label that is no boolean, (c) an old object that
\* is present and does not decode.
C6_HardFailures ==
  pc = "done" =>
    /\ BrokenManifest => Rejected(UnmarshalManifest(req.Object).err.text)
    /\ (req.Object.kind = "empty") => Rejected(<<"unexpected end of JSON input">>)
    /\ MalformedLabel =>
         Rejected(<<"strconv.ParseBool: parsing ", "\"">> \o LabelValue
                    \o <<"\"", ": invalid syntax">>)
    /\ BrokenOld => Rejected(UnmarshalMap(req.OldObject).err.text)

\* an eligible update whose old payload is empty: rejected with the decoder's
\* text
C6_Witness ==
  /\ pc = "done"
  /\ BrokenOld /\ req.OldObject.kind = "empty"
  /\ Rejected(<<"unexpected end of JSON input">>)

----------------------------------------------------------------------------
\* C7 as claimed: every response of mutate is an allowed response.
C7_NeverDenies ==
  pc = "done" => resp.Allowed = TRUE

\* C7 as amended: on a hard failure the response has Allowed=false, carries a
\* message and no patch; every other response has Allowed=true and no
\* message.
C7_DeniesOnFailure ==
  pc = "done" =>
    /\ HardFailure => (resp.Allowed = FALSE /\ resp.Result.set /\ ~resp.Patch.set)
    /\ ~HardFailure => (resp.Allowed = TRUE /\ ~resp.Result.set)

\* a malformed enabling label answered with Allowed=false
C7_Witness ==
  /\ pc = "done"
  /\ MalformedLabel
  /\ resp.Allowed = FALSE /\ resp.Result.set

----------------------------------------------------------------------------
\* the value of annotation key k in the decoded document m, if any
AnnotationOf(m, k) ==
  LET segs == << <<"metadata">>, <<"annotations">>, k >>
  IN  IF Resolves(m, segs) THEN Some(ValueAt(m, segs)) ELSE None

\* C8: with the paths annotation naming the current-metrics annotation, whose
\* key holds a "/", an old value there that the new object changes or drops
\* is restored by an operation of the response.
C8_SlashInKey ==
  (pc = "done" /\ Eligible /\ paths = <<CurrentMetrics>>
     /\ AnnotationOf(currentMap, HPAKey).has
     /\ AnnotationOf(newMap, HPAKey) # AnnotationOf(currentMap, HPAKey)) =>
    /\ resp.Patch.set
    /\ \E n \in 1..Len(resp.Patch.ops) :
         /\ resp.Patch.ops[n].v[<<"path">>].v = CurrentMetrics
         /\ Member(resp.Patch.ops[n].v, <<"value">>) = AnnotationOf(currentMap, HPAKey).v

----------------------------------------------------------------------------
\* longest list of segments the lookups are compared on
MaxNameParts == 3

NamePartKeys == {<<"spec">>, <<"replicas">>, <<"metadata">>, <<"labels">>}

NamePartLists == UNION {[1..k -> NamePartKeys] : k \in 0..MaxNameParts}

\* Get on record r agrees with the walk from the root for every list of
\* segments tried: found exactly when the list is non-empty and every segment
\* is a key of the mapping before it, and then with the terminal value
GetAgrees(r) ==
  \A segs \in NamePartLists \cup {Segments(paths[n]) : n \in 1..Len(paths)} :
    LET g == Get(r, segs)
    IN  /\ g.ok <=> Resolves(r, segs)
        /\ g.ok => g.val = ValueAt(r, segs)
        /\ (segs = <<>>) => ~g.ok
        /\ (Len(segs) > 1 /\ Resolves(r, SubSeq(segs, 1, Len(segs) - 1))
              /\ ValueAt(r, SubSeq(segs, 1, Len(segs) - 1)).t # "map") => ~g.ok

C9_GetState ==
  pc = "patch" => (GetAgrees(currentMap) /\ GetAgrees(newMap))

\* C9: Record.Get finds a value exactly when the segments are non-empty and
\* each is a key of the mapping the preceding ones reach, and returns the
\* terminal value; empty segments, a missing key or a non-mapping on the way
\* give not found; and the lookups of the loop leave both records as decoded.
C9_Get ==
  /\ []C9_GetState
  /\ [][pc = "patch" => (currentMap' = currentMap /\ newMap' = newMap)]_vars

\* the loop has looked up /spec (found: a sequence) and /spec/replicas (not
\* found: the sequence is no mapping) in the old record
C9_Witness ==
  /\ pc = "patch" /\ i = 3
  /\ paths = << <<"/", "spec">>, SpecReplicas >>
  /\ Get(currentMap, << <<"spec">> >>) = [val |-> Arr(<<Num("1")>>), ok |-> TRUE]
  /\ ~Get(currentMap, << <<"spec">>, <<"replicas">> >>).ok
  /\ Get(newMap, << <<"spec">>, <<"replicas">> >>) = [val |-> Num("10"), ok |-> TRUE]

----------------------------------------------------------------------------
\* C10: a request without an old object (a create) for an eligible new object
\* is answered Allowed with an empty patch list and no message, whatever the
\* protected paths.
C10_Create ==
  (pc = "done" /\ Eligible /\ req.OldObject.kind = "nil") => AllowedEmpty

\* a create whose two protected paths both hold values in the new object
C10_Witness ==
  /\ pc = "done" /\ Eligible /\ req.OldObject.kind = "nil"
  /\ paths = <<SpecReplicas, TestLabel>> /\ i = 3
  /\ currentMap = EmptyMap
  /\ Resolves(newMap, Segments(SpecReplicas)) /\ Resolves(newMap, Segments(TestLabel))
  /\ AllowedEmpty

----------------------------------------------------------------------------
\* a path with no segment text: empty, or made of "/" only
EmptyPath(path) == \A n \in 1..Len(path) : path[n] = "/"

\* C11: an empty protected path (from a stray or trailing comma, or a path of
\* "/" only) splits into the single empty-string segment, which does not
\* resolve in the old document, so the loop emits no operation for it.
C11_EmptyPath ==
  (pc \in {"patch", "done"} /\ i > 1 /\ EmptyPath(paths[i - 1])) =>
    /\ Segments(paths[i - 1]) = << <<>> >>
    /\ ~Resolves(currentMap, Segments(paths[i - 1]))
    /\ emitted = <<>>

----------------------------------------------------------------------------
\* the text of the parse error for the label's value
MalformedLabelText ==
  <<"strconv.ParseBool: parsing ", "\"">> \o LabelValue \o <<"\"", ": invalid syntax">>

\* the label passed mutationRequired: with a paths annotation the request went
\* on to the paths, without one it was allowed unchanged
PassedAsTrue ==
  /\ HasPaths => (paths # <<>> /\ ~Rejected(MalformedLabelText))
  /\ ~HasPaths => AllowedEmpty

\* C12 as claimed: the label is parsed without regard to case: every case
\* variant of "true", and "1", makes the object eligible; every case variant
\* of "false", and "0", is answered Allowed with no patches; only other text
\* is a malformed label.
C12_CaseInsensitive ==
  (pc = "done" /\ Decoded /\ ~Ignored /\ HasLabel) =>
    /\ LabelValue \in TrueVariants \cup {<<"1">>} => PassedAsTrue
    /\ LabelValue \in FalseVariants \cup {<<"0">>} => (AllowedEmpty /\ paths = <<>>)
    /\ Rejected(MalformedLabelText) =>
         LabelValue \notin TrueVariants \cup FalseVariants \cup {<<"1">>, <<"0">>}

\* C12 as amended: exactly the spellings strconv.ParseBool accepts count: 1, t,
\* T, TRUE, true, True make the object eligible; 0, f, F, FALSE, false, False
\* are answered Allowed with no patches; every other text, the other case
\* variants of "true" and "false" among it, is rejected as a malformed label.
C12_ParseBoolForms ==
  (pc = "done" /\ Decoded /\ ~Ignored /\ HasLabel) =>
    /\ LabelValue \in {<<"1">>, <<"t">>, <<"T">>, <<"TRUE">>, <<"true">>, <<"True">>}
         => PassedAsTrue
    /\ LabelValue \in {<<"0">>, <<"f">>, <<"F">>, <<"FALSE">>, <<"false">>, <<"False">>}
         => (AllowedEmpty /\ paths = <<>>)
    /\ LabelValue \notin
         {<<"1">>, <<"t">>, <<"T">>, <<"TRUE">>, <<"true">>, <<"True">>,
          <<"0">>, <<"f">>, <<"F">>, <<"FALSE">>, <<"false">>, <<"False">>}
         => (Rejected(MalformedLabelText) /\ paths = <<>>)

\* the label "tRuE", a case variant of "true", rejected as malformed
C12_Witness ==
  /\ pc = "done" /\ Decoded /\ ~Ignored
  /\ HasLabel /\ LabelValue = <<"tRuE">>
  /\ Rejected(<<"strconv.ParseBool: parsing ", "\"", "tRuE", "\"", ": invalid syntax">>)

====
